---- MODULE Spec2Model ----
(***************************************************************************)
(* Model of app.py (Ontario map backend): coordinate parsing, the          *)
(* four-variant geocoding fallback, display-label normalisation, region    *)
(* classification over the cached GeoJSON, the funding rule table and the  *)
(* /api/geocode and /api/regions handlers.                                 *)
(*                                                                         *)
(* Strings are sequences of pieces: single characters where the code works *)
(* on characters (strip, split, replace, the regular expression), whole    *)
(* words where it only compares or joins them (address fields, segments).  *)
(* Numbers produced by float() are exact decimals [num, den] with den a    *)
(* power of ten (the value is num / den).                                  *)
(***************************************************************************)
EXTENDS Integers, Sequences, FiniteSets, TLC

\* Bounds of the model.
MaxPieces == 3      \* tokens concatenated into one parser input
MaxReads == 3       \* reads of ontario_regions.geojson that are counted
MaxSegments == 5    \* comma-separated segments of a display_name
NumThreads == 2     \* concurrent request threads of the threaded server

VARIABLES
    phase,            \* "boot" | "serving" | "exited" ("off" in the function specs)
    regionFile,       \* what ontario_regions.geojson holds on disk
    ontario_regions,  \* the module-level cache (app.py:25)
    reads,            \* number of times the file was opened and parsed
    pc,               \* per thread: position in the handler
    req,              \* per thread: the request being handled
    loc,              \* per thread: locals of geocode()/geocode_address()
    data,             \* per thread: local geojson_data of the running load
    resp,             \* per thread: the response returned
    arg,              \* function specs: the arguments drawn
    ret               \* function specs: the value returned

vars == <<phase, regionFile, ontario_regions, reads, pc, req, loc, data, resp, arg, ret>>
appVars == <<phase, regionFile, ontario_regions, reads, pc, req, loc, data, resp>>

-----------------------------------------------------------------------------
(* Python str and numeric helpers *)

Digits == {"0", "1", "2", "3", "4", "5", "6", "7", "8", "9"}

\* \d of the regular expression, and what float() accepts as a digit
IsDigit(c) == c \in Digits

\* str.isspace for the characters of the model
IsSpace(c) == c \in {" ", "\t"}

DigitVal(c) ==
    CASE c = "0" -> 0 [] c = "1" -> 1 [] c = "2" -> 2 [] c = "3" -> 3
      [] c = "4" -> 4 [] c = "5" -> 5 [] c = "6" -> 6 [] c = "7" -> 7
      [] c = "8" -> 8 [] c = "9" -> 9

RECURSIVE Pow10(_)
Pow10(n) == IF n = 0 THEN 1 ELSE 10 * Pow10(n - 1)

RECURSIVE lstrip(_)
lstrip(s) == IF s # <<>> /\ IsSpace(Head(s)) THEN lstrip(Tail(s)) ELSE s

RECURSIVE rstrip(_)
rstrip(s) ==
    IF s # <<>> /\ IsSpace(s[Len(s)]) THEN rstrip(SubSeq(s, 1, Len(s) - 1)) ELSE s

\* str.strip()
strip(s) == rstrip(lstrip(s))

RECURSIVE split_acc(_, _, _)
split_acc(s, cur, acc) ==
    IF s = <<>>
    THEN IF cur = <<>> THEN acc ELSE Append(acc, cur)
    ELSE IF IsSpace(Head(s))
         THEN split_acc(Tail(s), <<>>, IF cur = <<>> THEN acc ELSE Append(acc, cur))
         ELSE split_acc(Tail(s), Append(cur, Head(s)), acc)

\* str.split() with no argument: the maximal runs of non-whitespace
split(s) == split_acc(s, <<>>, <<>>)

\* re.sub(r'[^\d\.-]', ' ', s)
re_sub_clean(s) ==
    [i \in 1..Len(s) |->
        IF IsDigit(s[i]) \/ s[i] = "." \/ s[i] = "-" THEN s[i] ELSE " "]

RECURSIVE int_of_digits(_, _)
int_of_digits(s, acc) ==
    IF s = <<>> THEN acc
    ELSE IF IsDigit(Head(s)) THEN int_of_digits(Tail(s), 10 * acc + DigitVal(Head(s)))
    ELSE int_of_digits(Tail(s), acc)

\* float(tok) for a token of digits, '.' and '-': [ok |-> FALSE] models ValueError
float(tok) ==
    LET neg == tok # <<>> /\ Head(tok) = "-"
        body == IF neg THEN Tail(tok) ELSE tok
        dots == {i \in 1..Len(body) : body[i] = "."}
        wellformed ==
            /\ \A i \in 1..Len(body) : IsDigit(body[i]) \/ body[i] = "."
            /\ Cardinality(dots) <= 1
            /\ \E i \in 1..Len(body) : IsDigit(body[i])
        frac == IF dots = {} THEN 0 ELSE Len(body) - (CHOOSE i \in dots : TRUE)
        mag == int_of_digits(body, 0)
    IN  IF wellformed
        THEN [ok |-> TRUE, num |-> IF neg THEN 0 - mag ELSE mag, den |-> Pow10(frac)]
        ELSE [ok |-> FALSE, num |-> 0, den |-> 1]

\* a <= x <= b for x = [num, den] and integers a, b
InRange(a, x, b) == a * x.den <= x.num /\ x.num <= b * x.den

\* Python None for an optional coordinate pair
NoCoords == [ok |-> FALSE]

LatMax == 90
LonMax == 180

\* mutant: exclusive range check
parse_coordinates_exclusive(location_input) ==
    LET parts == split(re_sub_clean(strip(location_input)))
    IN  IF Len(parts) = 2
        THEN LET lat == float(parts[1])
                 lon == float(parts[2])
             IN  IF /\ lat.ok /\ lon.ok
                    /\ (0 - LatMax) * lat.den < lat.num /\ lat.num < LatMax * lat.den
                    /\ (0 - LonMax) * lon.den < lon.num /\ lon.num < LonMax * lon.den
                 THEN [ok |-> TRUE,
                       lat |-> [num |-> lat.num, den |-> lat.den],
                       lon |-> [num |-> lon.num, den |-> lon.den]]
                 ELSE NoCoords
        ELSE NoCoords

\* parse_coordinates (app.py:40-63)
parse_coordinates(location_input) ==
    LET parts == split(re_sub_clean(strip(location_input)))
    IN  IF Len(parts) = 2
        THEN LET lat == float(parts[1])
                 lon == float(parts[2])
             IN  IF /\ lat.ok /\ lon.ok
                    /\ InRange(0 - LatMax, lat, LatMax)
                    /\ InRange(0 - LonMax, lon, LonMax)
                 THEN [ok |-> TRUE,
                       lat |-> [num |-> lat.num, den |-> lat.den],
                       lon |-> [num |-> lon.num, den |-> lon.den]]
                 ELSE NoCoords
        ELSE NoCoords

-----------------------------------------------------------------------------
(* geocode_address: query variants and normalisation of a hit *)

\* ", Ontario, Canada" and ", ON, Canada" (app.py:80-81)
SuffixOntario ==
    <<",", " ", "O", "n", "t", "a", "r", "i", "o", ",", " ", "C", "a", "n", "a", "d", "a">>
SuffixON == <<",", " ", "O", "N", ",", " ", "C", "a", "n", "a", "d", "a">>

\* address.replace(",", "")
replace_commas(s) == SelectSeq(s, LAMBDA c : c # ",")

\* mutant: the two suffixed variants in the other order
address_variations_swapped(address) ==
    << address,
       address \o SuffixON,
       address \o SuffixOntario,
       strip(replace_commas(address)) >>

\* mutant: the comma-free variant forgotten
address_variations_three(address) ==
    << address, address \o SuffixOntario, address \o SuffixON >>

\* address_variations (app.py:78-83)
address_variations(address) ==
    << address,
       address \o SuffixOntario,
       address \o SuffixON,
       strip(replace_commas(address)) >>

\* str.lower() on the words the model uses (a word is one element of a string)
Lower(w) ==
    CASE w = "Ontario" -> "ontario" [] w = "ONTARIO" -> "ontario"
      [] w = "Canada" -> "canada"   [] w = "CANADA" -> "canada"
      [] w = "ON" -> "on"           [] w = "On" -> "on"
      [] w = "Toronto" -> "toronto" [] w = "York" -> "york"
      [] OTHER -> w

lower(s) == [i \in 1..Len(s) |-> Lower(s[i])]

\* the separator of display_name.split(', ') and ", ".join(...)
CommaSpace == ", "

RECURSIVE split_comma_acc(_, _, _)
split_comma_acc(s, cur, acc) ==
    IF s = <<>> THEN Append(acc, cur)
    ELSE IF Head(s) = CommaSpace
         THEN split_comma_acc(Tail(s), <<>>, Append(acc, cur))
         ELSE IF Len(s) >= 2 /\ s[1] = "," /\ s[2] = " "
              THEN split_comma_acc(Tail(Tail(s)), <<>>, Append(acc, cur))
              ELSE split_comma_acc(Tail(s), Append(cur, Head(s)), acc)

\* s.split(', '): always at least one part, empty parts kept
split_comma(s) == split_comma_acc(s, <<>>, <<>>)

RECURSIVE join_comma(_)
\* ", ".join(parts)
join_comma(parts) ==
    IF parts = <<>> THEN <<>>
    ELSE IF Len(parts) = 1 THEN parts[1]
    ELSE parts[1] \o <<CommaSpace>> \o join_comma(Tail(parts))

\* part.lower() not in ['ontario', 'canada', 'on'] (app.py:151)
ExcludedNames == {<<"ontario">>, <<"canada">>, <<"on">>}

ScanLimit == 4     \* parts[:4] (app.py:150)
KeepLimit == 2     \* len(simplified_parts) >= 2 (app.py:153)
MinParts == 2      \* len(parts) > 2 (app.py:147)

RECURSIVE simplify_loop(_, _)
\* the for loop of app.py:150-154 over the parts still to scan
simplify_loop(parts, simplified_parts) ==
    IF parts = <<>> THEN simplified_parts
    ELSE LET part == Head(parts)
             kept == IF lower(part) \notin ExcludedNames
                     THEN Append(simplified_parts, part)
                     ELSE simplified_parts
         IN  IF Len(kept) >= KeepLimit THEN kept
             ELSE simplify_loop(Tail(parts), kept)

\* mutant: a display_name of one or two parts is shortened too
simplify_display_name_any_length(display_name) ==
    LET parts == split_comma(display_name)
        simplified_parts ==
            simplify_loop(SubSeq(parts, 1, IF Len(parts) < ScanLimit
                                           THEN Len(parts) ELSE ScanLimit), <<>>)
    IN  IF simplified_parts # <<>> THEN join_comma(simplified_parts) ELSE display_name

\* the fallback to display_name (app.py:144-157)
simplify_display_name(display_name) ==
    LET parts == split_comma(display_name)
    IN  IF Len(parts) > MinParts
        THEN LET simplified_parts ==
                     simplify_loop(SubSeq(parts, 1, IF Len(parts) < ScanLimit
                                                    THEN Len(parts) ELSE ScanLimit), <<>>)
             IN  IF simplified_parts # <<>> THEN join_comma(simplified_parts)
                 ELSE display_name
        ELSE display_name

\* mutant: the city-like field chosen town first
city_field_town_first(address_details) ==
    IF address_details.town # <<>> THEN address_details.town
    ELSE IF address_details.city # <<>> THEN address_details.city
    ELSE IF address_details.village # <<>> THEN address_details.village
    ELSE address_details.municipality

\* city or town or village or municipality (app.py:131-134); <<>> is a missing
\* or empty field, both falsy
city_field(address_details) ==
    IF address_details.city # <<>> THEN address_details.city
    ELSE IF address_details.town # <<>> THEN address_details.town
    ELSE IF address_details.village # <<>> THEN address_details.village
    ELSE address_details.municipality

\* the simplified address of a hit (app.py:116-157)
simplified_address(result, address) ==
    LET address_details == result.address
        house_number == address_details.house_number
        road == address_details.road
        street == IF house_number # <<>> /\ road # <<>>
                  THEN << house_number \o <<" ">> \o road >>
                  ELSE IF road # <<>> THEN << road >> ELSE <<>>
        city == city_field(address_details)
        address_parts == IF city # <<>> THEN Append(street, city) ELSE street
    IN  IF address_parts # <<>>
        THEN join_comma(address_parts)
        ELSE simplify_display_name(IF result.has_display_name
                                   THEN result.display_name ELSE address)

\* One iteration of the loop body after the HTTP call (app.py:106-173).
\* response.kind: "network_error" (requests.RequestException, incl. timeout and
\* raise_for_status), "bad_json" (response.json() raises ValueError), "empty"
\* (data == []), "hit" (data[0] exists; float() of its lat/lon may still raise).
variant_result(response, address) ==
    IF response.kind = "hit"
    THEN LET lat == float(response.cand.lat)
             lon == float(response.cand.lon)
         IN  IF lat.ok /\ lon.ok
             THEN [ok |-> TRUE,
                   lat |-> [num |-> lat.num, den |-> lat.den],
                   lon |-> [num |-> lon.num, den |-> lon.den],
                   label |-> simplified_address(response.cand, address)]
             ELSE [ok |-> FALSE]
    ELSE [ok |-> FALSE]

-----------------------------------------------------------------------------
(* calculate_funding_eligibility *)

\* Python None for an optional request field or region code
Absent == "<None>"

Falsy(x) == x \in {Absent, ""}

\* applicant_type_displays.get(applicant_type, applicant_type) (app.py:196-207)
applicant_type_display(applicant_type) ==
    CASE applicant_type = "indigenous" -> "Indigenous community or business"
      [] applicant_type = "municipality" -> "Municipalities"
      [] applicant_type = "business" ->
            "Businesses, not for profit corporations, and broader public sector"
      [] OTHER -> applicant_type

\* app.py:202-210
municipality_population_display(municipality_population) ==
    IF Falsy(municipality_population) THEN ""
    ELSE CASE municipality_population = "below-170k" -> "Below 170,000"
           [] municipality_population = "above-170k" -> "Above 170,000"
           [] OTHER -> municipality_population

HighRate == 75
LowRate == 50

\* mutant: the population bracket tested before the region
funding_percentage_bracket_first(applicant_type, municipality_population, region) ==
    IF municipality_population = "above-170k" /\ region \in {"north", "south"} THEN LowRate
    ELSE IF region = "north" THEN HighRate
    ELSE IF region = "south"
         THEN IF applicant_type = "indigenous" THEN HighRate
              ELSE IF applicant_type = "municipality"
                   THEN IF municipality_population = "below-170k" THEN HighRate ELSE 0
                   ELSE IF applicant_type = "business" THEN LowRate ELSE 0
         ELSE 0

\* the if/elif chain of app.py:217-236
funding_percentage(applicant_type, municipality_population, region) ==
    IF region = "north" THEN HighRate
    ELSE IF region = "south"
         THEN IF applicant_type = "indigenous" THEN HighRate
              ELSE IF applicant_type = "municipality"
                   THEN IF municipality_population = "below-170k" THEN HighRate
                        ELSE IF municipality_population = "above-170k" THEN LowRate
                        ELSE 0
                   ELSE IF applicant_type = "business" THEN LowRate
                   ELSE 0
         ELSE 0

\* calculate_funding_eligibility (app.py:178-245)
calculate_funding_eligibility(applicant_type, municipality_population, region) ==
    [applicant_type |-> applicant_type,
     applicant_type_display |-> applicant_type_display(applicant_type),
     municipality_population |-> municipality_population,
     municipality_population_display |->
         municipality_population_display(municipality_population),
     funding_percentage |->
         funding_percentage(applicant_type, municipality_population, region),
     region |-> region]

-----------------------------------------------------------------------------
(* point_in_region over the loaded GeoJSON *)

\* A boundary is an axis-aligned rectangle in whole degrees; x is longitude and
\* y latitude, as in GeoJSON.  polygon.contains(point) of shapely is true for
\* interior points only: a point on the boundary is not contained.
contains(polygon, point) ==
    /\ polygon.xmin * point.x.den < point.x.num
    /\ point.x.num < polygon.xmax * point.x.den
    /\ polygon.ymin * point.y.den < point.y.num
    /\ point.y.num < polygon.ymax * point.y.den

\* mutant: Point(lat, lon)
Point_swapped(lon, lat) == [x |-> lat, y |-> lon]

\* Point(lon, lat) (app.py:260)
Point(lon, lat) == [x |-> lon, y |-> lat]

NoRegion == [found |-> FALSE]

RECURSIVE scan_features(_, _)
\* the for loop of app.py:262-269; a feature without geometry raises KeyError,
\* which the except of app.py:271 turns into None
scan_features(features, point) ==
    IF features = <<>> THEN NoRegion
    ELSE LET feature == Head(features)
         IN  IF ~feature.has_geometry THEN NoRegion
             ELSE IF contains(feature.geometry, point)
                  THEN [found |-> TRUE, region |-> feature.region, name |-> feature.name]
                  ELSE scan_features(Tail(features), point)

\* point_in_region after load_geojson_data returned or raised (app.py:258-274);
\* loaded.status is "ok" or the exception raised by the load
point_in_region(loaded, lat, lon) ==
    IF loaded.status # "ok" THEN NoRegion
    ELSE IF ~loaded.value.has_features THEN NoRegion
    ELSE scan_features(loaded.value.features, Point(lon, lat))

-----------------------------------------------------------------------------
(* The process: startup, the cache, and the request handlers *)

Threads == DOMAIN pc

NotLoaded == [loaded |-> FALSE]

\* open() + json.load() of app.py:32-37: the parsed document or the exception
read_file(file) ==
    IF ~file.exists THEN [status |-> "FileNotFoundError"]
    ELSE IF ~file.json_ok THEN [status |-> "ValueError"]
    ELSE [status |-> "ok", value |-> file.json]

\* the 400 messages of app.py:323-347
InvalidInputErrors ==
    {"Location parameter is required", "Location cannot be empty",
     "Applicant type is required", "Invalid applicant type",
     "Municipality population is required for municipality applicants",
     "Invalid municipality population size"}

\* the 400 message of app.py:361
GuidanceError ==
    "Could not geocode the provided location. Please try: Adding Ontario, Canada; a more specific address; checking the spelling; coordinates as latitude, longitude"

valid_applicant_types == {"indigenous", "municipality", "business"}
valid_populations == {"below-170k", "above-170k"}

\* mutant: the population bracket validated for every applicant type
validation_error_always_population(r) ==
    IF ~r.has_location THEN "Location parameter is required"
    ELSE IF strip(r.location) = <<>> THEN "Location cannot be empty"
    ELSE IF Falsy(r.applicant_type) THEN "Applicant type is required"
    ELSE IF r.applicant_type \notin valid_applicant_types THEN "Invalid applicant type"
    ELSE IF Falsy(r.municipality_population)
         THEN "Municipality population is required for municipality applicants"
    ELSE IF r.municipality_population \notin valid_populations
         THEN "Invalid municipality population size"
    ELSE ""

\* the validation of app.py:321-347: the error returned with status 400, or ""
validation_error(r) ==
    IF ~r.has_location THEN "Location parameter is required"
    ELSE IF strip(r.location) = <<>> THEN "Location cannot be empty"
    ELSE IF Falsy(r.applicant_type) THEN "Applicant type is required"
    ELSE IF r.applicant_type \notin valid_applicant_types THEN "Invalid applicant type"
    ELSE IF r.applicant_type = "municipality"
         THEN IF Falsy(r.municipality_population)
              THEN "Municipality population is required for municipality applicants"
              ELSE IF r.municipality_population \notin valid_populations
                   THEN "Invalid municipality population size"
                   ELSE ""
    ELSE ""

NoRequest == [kind |-> "none"]
NoResponse == [status |-> 0]
NoData == [status |-> "unset"]
\* locals of one request; calls records which components the request invoked
InitLoc ==
    [input_type |-> "", coords |-> NoCoords, has_display |-> FALSE,
     display_address |-> <<>>, i |-> 0, queries |-> <<>>, calls |-> {}]

\* if __name__ == '__main__' (app.py:427-437): the eager load; a failure exits
StartMain ==
    /\ phase = "boot"
    /\ reads' = reads + 1
    /\ LET loaded == read_file(regionFile)
       IN  IF loaded.status = "ok"
           THEN /\ ontario_regions' = [loaded |-> TRUE, value |-> loaded.value]
                /\ phase' = "serving"
           ELSE /\ phase' = "exited"
                /\ UNCHANGED ontario_regions
    /\ UNCHANGED <<regionFile, pc, req, loc, data, resp, arg, ret>>

\* the module imported by a WSGI server: app exists, nothing is loaded yet
StartImported ==
    /\ phase = "boot"
    /\ phase' = "serving"
    /\ UNCHANGED <<regionFile, ontario_regions, reads, pc, req, loc, data, resp, arg, ret>>

\* geocode(), app.py:320-366 up to the first blocking call: validation, then
\* parse_coordinates
geocode_begin(t, r) ==
    /\ phase = "serving"
    /\ pc[t] = "idle"
    /\ req' = [req EXCEPT ![t] = r]
    /\ LET error == validation_error(r)
       IN  IF error # ""
           THEN /\ resp' = [resp EXCEPT ![t] = [status |-> 400, error |-> error]]
                /\ pc' = [pc EXCEPT ![t] = "done"]
                /\ UNCHANGED loc
           ELSE LET location_input == strip(r.location)
                    coords == parse_coordinates(location_input)
                IN  IF coords.ok
                    THEN /\ loc' = [loc EXCEPT ![t] =
                                [InitLoc EXCEPT !.input_type = "coordinates",
                                                !.coords = coords,
                                                !.calls = {"parse_coordinates"}]]
                         /\ pc' = [pc EXCEPT ![t] = "load_check"]
                         /\ UNCHANGED resp
                    ELSE /\ loc' = [loc EXCEPT ![t] =
                                [InitLoc EXCEPT !.input_type = "address",
                                                !.i = 1,
                                                !.calls = {"parse_coordinates"}]]
                         /\ pc' = [pc EXCEPT ![t] = "query"]
                         /\ UNCHANGED resp
    /\ UNCHANGED <<phase, regionFile, ontario_regions, reads, data, arg, ret>>

\* one iteration of the loop of geocode_address (app.py:85-173) with the
\* geocoder's response, and app.py:359-364 when the loop ends
geocode_address_try(t, response) ==
    /\ pc[t] = "query"
    /\ LET address == strip(req[t].location)
           variations == address_variations(address)
           i == loc[t].i
           result == variant_result(response, address)
           queries == Append(loc[t].queries,
                             [q |-> variations[i], kind |-> response.kind, ok |-> result.ok])
           calls == loc[t].calls \cup {"geocoder"}
       IN  IF result.ok
           THEN /\ loc' = [loc EXCEPT ![t] =
                       [@ EXCEPT !.coords = [ok |-> TRUE, lat |-> result.lat, lon |-> result.lon],
                                 !.has_display = TRUE,
                                 !.display_address = result.label,
                                 !.queries = queries,
                                 !.calls = calls]]
                /\ pc' = [pc EXCEPT ![t] = "load_check"]
                /\ UNCHANGED resp
           ELSE IF i < Len(variations)
           THEN /\ loc' = [loc EXCEPT ![t] =
                       [@ EXCEPT !.i = i + 1, !.queries = queries, !.calls = calls]]
                /\ UNCHANGED <<pc, resp>>
           ELSE /\ loc' = [loc EXCEPT ![t] = [@ EXCEPT !.queries = queries, !.calls = calls]]
                /\ resp' = [resp EXCEPT ![t] = [status |-> 400, error |-> GuidanceError]]
                /\ pc' = [pc EXCEPT ![t] = "done"]
    /\ UNCHANGED <<phase, regionFile, ontario_regions, reads, req, data, arg, ret>>

\* get_regions (app.py:276-280) up to the call of load_geojson_data
get_regions_begin(t) ==
    /\ phase = "serving"
    /\ pc[t] = "idle"
    /\ req' = [req EXCEPT ![t] = [kind |-> "regions"]]
    /\ pc' = [pc EXCEPT ![t] = "load_check"]
    /\ UNCHANGED <<phase, regionFile, ontario_regions, reads, loc, data, resp, arg, ret>>

\* load_geojson_data, app.py:30 and :38: the test of the cache
load_check(t) ==
    /\ pc[t] = "load_check"
    /\ IF ontario_regions.loaded
       THEN /\ data' = [data EXCEPT ![t] = [status |-> "ok", value |-> ontario_regions.value]]
            /\ pc' = [pc EXCEPT ![t] = "respond"]
       ELSE /\ pc' = [pc EXCEPT ![t] = "load_read"]
            /\ UNCHANGED data
    /\ UNCHANGED <<phase, regionFile, ontario_regions, reads, req, loc, resp, arg, ret>>

\* load_geojson_data, app.py:31-38: the file is opened and parsed, the cache
\* assigned; an exception leaves the cache None
load_read(t) ==
    /\ pc[t] = "load_read"
    /\ reads < MaxReads
    /\ reads' = reads + 1
    /\ LET loaded == read_file(regionFile)
       IN  /\ data' = [data EXCEPT ![t] = loaded]
           /\ IF loaded.status = "ok"
              THEN ontario_regions' = [loaded |-> TRUE, value |-> loaded.value]
              ELSE UNCHANGED ontario_regions
    /\ pc' = [pc EXCEPT ![t] = "respond"]
    /\ UNCHANGED <<phase, regionFile, req, loc, resp, arg, ret>>

\* geocode(), app.py:369-396: point_in_region after the load, the funding
\* rule and the response
classify_respond(t) ==
    /\ pc[t] = "respond"
    /\ req[t].kind = "geocode"
    /\ LET lat == loc[t].coords.lat
           lon == loc[t].coords.lon
           region_info == point_in_region(data[t], lat, lon)
           region_name == IF region_info.found THEN region_info.region ELSE Absent
           funding_info == calculate_funding_eligibility(
                               req[t].applicant_type, req[t].municipality_population,
                               region_name)
       IN  /\ resp' = [resp EXCEPT ![t] =
                   [status |-> 200, success |-> TRUE,
                    latitude |-> lat, longitude |-> lon,
                    region |-> region_info,
                    input_type |-> loc[t].input_type,
                    has_display |-> loc[t].has_display,
                    display_address |-> loc[t].display_address,
                    message |-> IF region_info.found
                                THEN <<"This location is in ", region_info.name, ".">>
                                ELSE <<"This location is outside of Ontario or in an unmapped area.">>,
                    funding_info |-> funding_info]]
           /\ loc' = [loc EXCEPT ![t] =
                   [@ EXCEPT !.calls = @ \cup {"point_in_region", "calculate_funding_eligibility"}]]
    /\ pc' = [pc EXCEPT ![t] = "done"]
    /\ UNCHANGED <<phase, regionFile, ontario_regions, reads, req, data, arg, ret>>

\* get_regions (app.py:279-284) after the load
get_regions_respond(t) ==
    /\ pc[t] = "respond"
    /\ req[t].kind = "regions"
    /\ resp' = [resp EXCEPT ![t] =
           IF data[t].status = "ok"
           THEN [status |-> 200, body |-> data[t].value]
           ELSE [status |-> 500, error |-> "Failed to load region data"]]
    /\ pc' = [pc EXCEPT ![t] = "done"]
    /\ UNCHANGED <<phase, regionFile, ontario_regions, reads, req, loc, data, arg, ret>>

\* the response is sent; the thread takes the next request
finish(t) ==
    /\ pc[t] = "done"
    /\ pc' = [pc EXCEPT ![t] = "idle"]
    /\ req' = [req EXCEPT ![t] = NoRequest]
    /\ loc' = [loc EXCEPT ![t] = InitLoc]
    /\ data' = [data EXCEPT ![t] = NoData]
    /\ resp' = [resp EXCEPT ![t] = NoResponse]
    /\ UNCHANGED <<phase, regionFile, ontario_regions, reads, arg, ret>>

-----------------------------------------------------------------------------
(* Inputs: region files, requests, geocoder responses *)

\* two overlapping regions; longitude 0..4 for both, latitude 2..6 and 0..4
NorthFeature ==
    [has_geometry |-> TRUE, geometry |-> [xmin |-> 0, xmax |-> 4, ymin |-> 2, ymax |-> 6],
     region |-> "north", name |-> "Northern Ontario"]
SouthFeature ==
    [has_geometry |-> TRUE, geometry |-> [xmin |-> 0, xmax |-> 4, ymin |-> 0, ymax |-> 4],
     region |-> "south", name |-> "Southern Ontario"]
\* a feature with no "geometry" member
BrokenFeature ==
    [has_geometry |-> FALSE, geometry |-> [xmin |-> 0, xmax |-> 0, ymin |-> 0, ymax |-> 0],
     region |-> "north", name |-> "Northern Ontario"]

EmptyJson == [has_features |-> FALSE, features |-> <<>>]
FileOf(features) ==
    [exists |-> TRUE, json_ok |-> TRUE,
     json |-> [has_features |-> TRUE, features |-> features]]

FileMissing == [exists |-> FALSE, json_ok |-> FALSE, json |-> EmptyJson]
FileNotJson == [exists |-> TRUE, json_ok |-> FALSE, json |-> EmptyJson]
FileNoFeatures == [exists |-> TRUE, json_ok |-> TRUE, json |-> EmptyJson]
FileBrokenFeature == FileOf(<<BrokenFeature, NorthFeature, SouthFeature>>)

WellFormedFiles == {FileOf(<<NorthFeature, SouthFeature>>), FileOf(<<SouthFeature, NorthFeature>>)}
RegionFiles ==
    WellFormedFiles \cup {FileMissing, FileNotJson, FileNoFeatures, FileBrokenFeature}

\* the file is usable: it exists, is JSON, and is a feature collection whose
\* features all carry a geometry
FileWellFormed(file) ==
    /\ file.exists /\ file.json_ok /\ file.json.has_features
    /\ \A k \in 1..Len(file.json.features) : file.json.features[k].has_geometry

CoordinateLocations ==
    { <<"5", " ", "1">>, <<"3", ",", " ", "1">>, <<"1", " ", "1">>,
      <<" ", "1", ",", "5">>, <<"0", " ", "1">>, <<"2", ".", "5", ",", "1">> }
AddressLocations == { <<"a", " ", ",">>, <<"a", ",", " ", "b">> }
BlankLocations == { <<>>, <<" ", " ">> }

ApplicantTypes == {Absent, "", "indigenous", "municipality", "business", "other"}
Populations == {Absent, "below-170k", "above-170k", "other"}

GeocodeRequests ==
    [kind : {"geocode"}, has_location : {TRUE},
     location : CoordinateLocations \cup AddressLocations \cup BlankLocations,
     applicant_type : ApplicantTypes, municipality_population : Populations]
    \cup
    [kind : {"geocode"}, has_location : {FALSE}, location : {<<>>},
     applicant_type : {"business", "other"}, municipality_population : {Absent}]

NoAddress ==
    [house_number |-> <<>>, road |-> <<>>, city |-> <<>>, town |-> <<>>,
     village |-> <<>>, municipality |-> <<>>]
StructuredCandidate ==
    [lat |-> <<"5">>, lon |-> <<"1">>,
     address |-> [NoAddress EXCEPT !.house_number = <<"123">>,
                                   !.road = <<"Main Street">>, !.city = <<"Toronto">>],
     has_display_name |-> TRUE,
     display_name |-> <<"123", CommaSpace, "Main Street", CommaSpace, "Toronto",
                        CommaSpace, "Ontario", CommaSpace, "Canada">>]
PlainCandidate ==
    [lat |-> <<"1">>, lon |-> <<"5">>, address |-> NoAddress, has_display_name |-> TRUE,
     display_name |-> <<"Toronto", CommaSpace, "Ontario", CommaSpace, "Canada">>]
\* a first result without "lat"
LatlessCandidate ==
    [lat |-> <<>>, lon |-> <<"5">>, address |-> NoAddress, has_display_name |-> FALSE,
     display_name |-> <<>>]

FailureKinds == {"network_error", "bad_json", "empty"}
Responses ==
    [kind : FailureKinds, cand : {LatlessCandidate}]
    \cup [kind : {"hit"}, cand : {StructuredCandidate, PlainCandidate, LatlessCandidate}]

-----------------------------------------------------------------------------
(* Specifications *)

InitApp(threads) ==
    /\ phase = "boot"
    /\ regionFile \in RegionFiles
    /\ ontario_regions = NotLoaded
    /\ reads = 0
    /\ pc = [t \in threads |-> "idle"]
    /\ req = [t \in threads |-> NoRequest]
    /\ loc = [t \in threads |-> InitLoc]
    /\ data = [t \in threads |-> NoData]
    /\ resp = [t \in threads |-> NoResponse]
    /\ arg = <<>>
    /\ ret = <<>>

\* one request at a time
Init == InitApp({1})

GeocodeBegin == \E t \in Threads : \E r \in GeocodeRequests : geocode_begin(t, r)
GeocodeAddressTry == \E t \in Threads : \E response \in Responses : geocode_address_try(t, response)
GetRegionsBegin == \E t \in Threads : get_regions_begin(t)
LoadCheck == \E t \in Threads : load_check(t)
LoadRead == \E t \in Threads : load_read(t)
ClassifyRespond == \E t \in Threads : classify_respond(t)
GetRegionsRespond == \E t \in Threads : get_regions_respond(t)
Finish == \E t \in Threads : finish(t)

Next ==
    \/ StartMain
    \/ StartImported
    \/ GeocodeBegin
    \/ GeocodeAddressTry
    \/ GetRegionsBegin
    \/ LoadCheck
    \/ LoadRead
    \/ ClassifyRespond
    \/ GetRegionsRespond
    \/ Finish

Spec == Init /\ [][Next]_vars

(* Concurrent requests: the threads of the server, few inputs *)

ConcRequests ==
    [kind : {"geocode"}, has_location : {TRUE},
     location : { <<"1", " ", "1">>, <<"a", " ", ",">> },
     applicant_type : {"business"}, municipality_population : {Absent}]
ConcResponses ==
    [kind : {"empty"}, cand : {LatlessCandidate}]
    \cup [kind : {"hit"}, cand : {StructuredCandidate}]
ConcFiles == {FileOf(<<NorthFeature, SouthFeature>>), FileMissing, FileNoFeatures}

InitConc == InitApp(1..NumThreads) /\ regionFile \in ConcFiles

ConcGeocodeBegin == \E t \in Threads : \E r \in ConcRequests : geocode_begin(t, r)
ConcGeocodeAddressTry ==
    \E t \in Threads : \E response \in ConcResponses : geocode_address_try(t, response)

NextConc ==
    \/ StartMain
    \/ StartImported
    \/ ConcGeocodeBegin
    \/ ConcGeocodeAddressTry
    \/ GetRegionsBegin
    \/ LoadCheck
    \/ LoadRead
    \/ ClassifyRespond
    \/ GetRegionsRespond
    \/ Finish

SpecConc == InitConc /\ [][NextConc]_vars

-----------------------------------------------------------------------------
(* Function specifications: the arguments are drawn, the function applied *)

AppOff ==
    /\ phase = "off"
    /\ regionFile = FileMissing
    /\ ontario_regions = NotLoaded
    /\ reads = 0
    /\ pc = <<>> /\ req = <<>> /\ loc = <<>> /\ data = <<>> /\ resp = <<>>

Pending == [done |-> FALSE]

(* parse_coordinates *)

ParseTokens ==
    { <<"9", "0">>, <<"9", "0", ".", "1">>, <<"-", "9", "0">>, <<"-", "9", "1">>,
      <<"4", "3", ".", "6", "5">>, <<"1", "8", "0">>, <<"1", "8", "1">>, <<"-", "1", "8", "0">>,
      <<"-", "1", "8", "0", ".", "5">>, <<"-">>, <<"1", ".", "2", ".", "3">>,
      <<".", "5">> }
ParseSeparators == { <<",", " ">>, <<"N", " ">> }

RECURSIVE ParseInput(_, _)
\* the tokens toks written one after the other, seps[k] before token k + 1
ParseInput(toks, seps) ==
    IF Len(toks) = 1 THEN toks[1]
    ELSE ParseInput(SubSeq(toks, 1, Len(toks) - 1), seps)
             \o seps[Len(toks) - 1] \o toks[Len(toks)]

InitParse ==
    /\ AppOff
    /\ \/ arg \in { <<>>, <<" ">>, <<"a", "b">> }
       \/ \E n \in 1..MaxPieces :
              \E toks \in [1..n -> ParseTokens] :
                  \E seps \in [1..(n - 1) -> ParseSeparators] :
                      arg = ParseInput(toks, seps)
    /\ ret = Pending

ParseCoordinates ==
    /\ phase = "off"
    /\ ~ret.done
    /\ ret' = [done |-> TRUE, value |-> parse_coordinates(arg)]
    /\ UNCHANGED <<appVars, arg>>

SpecParse == InitParse /\ [][ParseCoordinates]_vars

(* calculate_funding_eligibility *)

FundingInputs ==
    [applicant_type : ApplicantTypes,
     municipality_population : Populations \cup {""},
     region : {"north", "south", "east", Absent}]

InitFunding == AppOff /\ arg \in FundingInputs /\ ret = Pending

CalculateFundingEligibility ==
    /\ phase = "off"
    /\ ~ret.done
    /\ ret' = [done |-> TRUE,
               value |-> calculate_funding_eligibility(
                             arg.applicant_type, arg.municipality_population, arg.region)]
    /\ UNCHANGED <<appVars, arg>>

SpecFunding == InitFunding /\ [][CalculateFundingEligibility]_vars

(* the simplified address of a geocoding hit *)

StructuredAddresses ==
    [house_number : {<<>>, <<"123">>}, road : {<<>>, <<"Main Street">>},
     city : {<<>>, <<"Toronto">>}, town : {<<>>, <<"Milton">>},
     village : {<<>>, <<"Elora">>}, municipality : {<<>>, <<"Halton">>}]

SegmentPool == { <<"Toronto">>, <<"York">>, <<"Ontario">>, <<"ON">>, <<"canada">> }

\* a hit without structured parts: display_name has up to MaxSegments segments
PlainResult(address, segments) ==
    [lat |-> <<"1">>, lon |-> <<"1">>, address |-> address,
     has_display_name |-> TRUE, display_name |-> join_comma(segments)]

InitLabel ==
    /\ AppOff
    /\ \/ arg \in [result : [lat : {<<"1">>}, lon : {<<"1">>},
                             address : StructuredAddresses, has_display_name : {TRUE},
                             display_name : {<<"York", CommaSpace, "Ontario",
                                               CommaSpace, "Canada">>}],
                   address : {<<"x">>}]
       \/ \E n \in 0..MaxSegments :
              \E segments \in [1..n -> SegmentPool] :
                  \E address \in {NoAddress, [NoAddress EXCEPT !.house_number = <<"123">>]} :
                      arg = [result |-> PlainResult(address, segments), address |-> <<"x">>]
       \/ arg \in [result : [lat : {<<"1">>}, lon : {<<"1">>}, address : {NoAddress},
                             has_display_name : {FALSE}, display_name : {<<>>}],
                   address : { <<"York">>,
                               <<"Y", "o", "r", "k", ",", " ", "O", "N", ",", " ", "C", "A">> }]
    /\ ret = Pending

SimplifiedAddress ==
    /\ phase = "off"
    /\ ~ret.done
    /\ ret' = [done |-> TRUE, value |-> simplified_address(arg.result, arg.address)]
    /\ UNCHANGED <<appVars, arg>>

SpecLabel == InitLabel /\ [][SimplifiedAddress]_vars

-----------------------------------------------------------------------------
(* Claims *)

(* ---- C6: parse_coordinates ---- *)

Kept(c) == c \in Digits \cup {".", "-"}

\* where the maximal runs of kept characters start
RunStarts(s) == { i \in 1..Len(s) : Kept(s[i]) /\ (i = 1 \/ ~Kept(s[i - 1])) }

\* the run starting at i
RunAt(s, i) ==
    LET j == CHOOSE e \in i..Len(s) :
                 /\ \A k \in i..e : Kept(s[k])
                 /\ (e = Len(s) \/ ~Kept(s[e + 1]))
    IN  SubSeq(s, i, j)

\* the value of a digit string read as a decimal integer
RECURSIVE DecimalValue(_)
DecimalValue(ds) ==
    IF ds = <<>> THEN 0
    ELSE DigitVal(ds[Len(ds)]) + 10 * DecimalValue(SubSeq(ds, 1, Len(ds) - 1))

AllDigits(ds) == \A k \in 1..Len(ds) : ds[k] \in Digits

\* tok is [-]int[.frac] with at least one digit; then its numerator over 10^|frac|
NumberSplits(tok) ==
    LET body == IF tok # <<>> /\ tok[1] = "-" THEN SubSeq(tok, 2, Len(tok)) ELSE tok
    IN  { <<a, b>> \in (0..Len(body)) \X (0..Len(body)) :
            /\ a + b > 0
            /\ \/ b = 0 /\ a = Len(body)
               \/ a + b + 1 = Len(body) /\ body[a + 1] = "."
            /\ AllDigits(SubSeq(body, 1, a))
            /\ AllDigits(SubSeq(body, Len(body) - b + 1, Len(body))) }

IsNumber(tok) == NumberSplits(tok) # {}

NumberOf(tok) ==
    LET neg == tok[1] = "-"
        body == IF neg THEN SubSeq(tok, 2, Len(tok)) ELSE tok
        ab == CHOOSE p \in NumberSplits(tok) : TRUE
        mag == DecimalValue(SubSeq(body, 1, ab[1])) * Pow10(ab[2])
               + DecimalValue(SubSeq(body, Len(body) - ab[2] + 1, Len(body)))
    IN  [num |-> IF neg THEN 0 - mag ELSE mag, den |-> Pow10(ab[2])]

SameNumber(x, y) == x.num * y.den = y.num * x.den

\* what the parser is said to return for raw
ParsesTo(raw, value) ==
    LET starts == RunStarts(raw)
    IN  IF Cardinality(starts) = 2
        THEN LET i1 == CHOOSE i \in starts : \A j \in starts : i <= j
                 i2 == CHOOSE i \in starts : \A j \in starts : j <= i
                 t1 == RunAt(raw, i1)
                 t2 == RunAt(raw, i2)
             IN  IF /\ IsNumber(t1) /\ IsNumber(t2)
                    /\ 0 - 90 * NumberOf(t1).den <= NumberOf(t1).num
                    /\ NumberOf(t1).num <= 90 * NumberOf(t1).den
                    /\ 0 - 180 * NumberOf(t2).den <= NumberOf(t2).num
                    /\ NumberOf(t2).num <= 180 * NumberOf(t2).den
                 THEN /\ value.ok
                      /\ SameNumber(value.lat, NumberOf(t1))
                      /\ SameNumber(value.lon, NumberOf(t2))
                 ELSE ~value.ok
        ELSE ~value.ok

\* C6: parse_coordinates returns (first token, second token) as (latitude,
\* longitude) exactly when the input has exactly two tokens of digits, '.' and
\* '-', both are numbers, latitude is in [-90, 90] and longitude in [-180, 180]
\* (inclusive); for every other input it returns None.
C6_ParseExact == ret.done => ParsesTo(arg, ret.value)

\* C6 witness: both inclusive bounds accepted: "90, -180" parses to (90, -180)
C6_Witness ==
    /\ ret.done /\ ret.value.ok
    /\ ret.value.lat.num = 90 * ret.value.lat.den
    /\ ret.value.lon.num = 0 - 180 * ret.value.lon.den

(* ---- C4: the funding rule table ---- *)

Wildcard == "*"

RuleTable ==
    << [region |-> "north", category |-> Wildcard, bracket |-> Wildcard, percentage |-> 75],
       [region |-> "south", category |-> "indigenous", bracket |-> Wildcard, percentage |-> 75],
       [region |-> "south", category |-> "municipality", bracket |-> "below-170k",
        percentage |-> 75],
       [region |-> "south", category |-> "municipality", bracket |-> "above-170k",
        percentage |-> 50],
       [region |-> "south", category |-> "business", bracket |-> Wildcard, percentage |-> 50],
       [region |-> Absent, category |-> Wildcard, bracket |-> Wildcard, percentage |-> 0] >>

RuleMatches(rule, a) ==
    /\ rule.region = a.region
    /\ rule.category \in {Wildcard, a.applicant_type}
    /\ rule.bracket \in {Wildcard, a.municipality_population}

FirstMatchPercentage(a) ==
    LET hits == { k \in 1..Len(RuleTable) : RuleMatches(RuleTable[k], a) }
    IN  IF hits = {} THEN 0
        ELSE RuleTable[CHOOSE k \in hits : \A j \in hits : k <= j].percentage

\* C4: for every applicant category, population bracket and region (recognised,
\* unrecognised or absent) the percentage is that of the first matching rule of
\* the table, and 0 when no rule matches.
C4_RuleTable == ret.done => ret.value.funding_percentage = FirstMatchPercentage(arg)

\* C4 witness: a southern municipality above 170k has been evaluated to 50
C4_Witness ==
    /\ ret.done
    /\ arg.region = "south" /\ arg.applicant_type = "municipality"
    /\ arg.municipality_population = "above-170k"
    /\ ret.value.funding_percentage = 50

(* ---- C9: the label of a hit with structured parts ---- *)

HasStructuredPart(address) ==
    \E f \in {"road", "city", "town", "village", "municipality"} : address[f] # <<>>

StreetPart(address) ==
    IF address.house_number # <<>> /\ address.road # <<>>
    THEN << address.house_number \o <<" ">> \o address.road >>
    ELSE IF address.road # <<>> THEN << address.road >> ELSE <<>>

\* the first non-empty field of address in the order given
FirstPresent(address, order) ==
    LET present == { k \in 1..Len(order) : address[order[k]] # <<>> }
    IN  IF present = {} THEN <<>>
        ELSE << address[order[CHOOSE k \in present : \A j \in present : k <= j]] >>

LabelWith(address, order) == join_comma(StreetPart(address) \o FirstPresent(address, order))

\* C9 as stated: with at least one structured part the label is the street part
\* followed by the city-like field, joined by ", ", the city-like field being
\* the first present among town, city, village, municipality.
C9_TownFirst ==
    (ret.done /\ HasStructuredPart(arg.result.address))
        => ret.value = LabelWith(arg.result.address,
                                 <<"town", "city", "village", "municipality">>)

\* C9 amended: the same with the city-like field chosen in the order city, town,
\* village, municipality.
C9_CityFirst ==
    (ret.done /\ HasStructuredPart(arg.result.address))
        => ret.value = LabelWith(arg.result.address,
                                 <<"city", "town", "village", "municipality">>)

\* C9 witness: a hit with house number, road, city and town is labelled
\* "123 Main Street, Toronto" (the city)
C9_Witness ==
    /\ ret.done
    /\ arg.result.address.town # <<>>
    /\ arg.result.address.city = <<"Toronto">>
    /\ ret.value = <<"123", " ", "Main Street", CommaSpace, "Toronto">>

(* ---- C10: the label of a hit without structured parts ---- *)

\* the string the fallback works on
DisplayString(a) ==
    IF a.result.has_display_name THEN a.result.display_name ELSE a.address

IsProvinceOrCountry(seg) == lower(seg) \in { <<"ontario">>, <<"canada">>, <<"on">> }

\* the segments of s: what lies between the ", " separators
Segments(s) == split_comma(s)

\* l is raw[k1], raw[k2], ... for increasing positions among the first four
IsOrderedPickOfFirstFour(l, raw) ==
    \E pick \in SUBSET (1..(IF Len(raw) < 4 THEN Len(raw) ELSE 4)) :
        /\ Cardinality(pick) = Len(l)
        /\ \A n \in 1..Len(l) :
              \E k \in pick : /\ Cardinality({ j \in pick : j <= k }) = n
                              /\ l[n] = raw[k]

\* C10 as stated: for every display string the label has no province or country
\* segment, at most two segments, each one of the first four raw segments in
\* their order.
C10_AlwaysShortened ==
    (ret.done /\ ~HasStructuredPart(arg.result.address))
        => LET l == Segments(ret.value)
               raw == Segments(DisplayString(arg))
           IN  /\ \A n \in 1..Len(l) : ~IsProvinceOrCountry(l[n])
               /\ Len(l) <= 2
               /\ IsOrderedPickOfFirstFour(l, raw)

\* the positions among the first four raw segments that are kept
KeptPositions(raw) ==
    { k \in 1..Len(raw) : k <= 4 /\ ~IsProvinceOrCountry(raw[k]) }

\* C10 amended: when the display string has more than two segments and one of
\* its first four is not a province or country name, the label is the first two
\* (or the only one) of those among the first four, in order; otherwise the
\* label is the display string unchanged.
C10_ShortenedWhenLong ==
    (ret.done /\ ~HasStructuredPart(arg.result.address))
        => LET l == Segments(ret.value)
               raw == Segments(DisplayString(arg))
               keep == KeptPositions(raw)
           IN  IF Len(raw) > 2 /\ keep # {}
               THEN /\ Len(l) = (IF Cardinality(keep) < 2 THEN Cardinality(keep) ELSE 2)
                    /\ \A n \in 1..Len(l) :
                          \E k \in keep : /\ Cardinality({ j \in keep : j <= k }) = n
                                          /\ l[n] = raw[k]
               ELSE ret.value = DisplayString(arg)

\* C10 witness: "ON, Toronto, canada, York, Toronto" has been shortened to
\* "Toronto, York"
C10_Witness ==
    /\ ret.done /\ ~HasStructuredPart(arg.result.address)
    /\ Len(Segments(DisplayString(arg))) = 5
    /\ IsProvinceOrCountry(Segments(DisplayString(arg))[1])
    /\ IsProvinceOrCountry(Segments(DisplayString(arg))[3])
    /\ ret.value = <<"Toronto", CommaSpace, "York">>

(* ---- C1: the order of the geocoder queries ---- *)

\* the request of thread t passed validation and is being or has been resolved
Resolving(t) == req[t].kind = "geocode" /\ loc[t].calls # {}

\* the string handed to the resolver
Raw(t) == strip(req[t].location)

WithoutCommas(raw) == SelectSeq(raw, LAMBDA c : c # ",")

RECURSIVE Trimmed(_)
\* raw without the whitespace at its two ends
Trimmed(raw) ==
    IF raw # <<>> /\ raw[1] = " " THEN Trimmed(SubSeq(raw, 2, Len(raw)))
    ELSE IF raw # <<>> /\ raw[Len(raw)] = " " THEN Trimmed(SubSeq(raw, 1, Len(raw) - 1))
    ELSE raw

VariantsAsStated(raw) ==
    << raw, raw \o SuffixOntario, raw \o SuffixON, WithoutCommas(raw) >>

VariantsTrimmed(raw) ==
    << raw, raw \o SuffixOntario, raw \o SuffixON, Trimmed(WithoutCommas(raw)) >>

\* the queries thread t has issued are a prefix of list, every query but the
\* last failed, and resolution has ended exactly when the last one succeeded
\* or the list is exhausted
QueriesArePrefixOf(t, list) ==
    LET qs == loc[t].queries
        n == Len(qs)
    IN  /\ n <= Len(list)
        /\ \A k \in 1..n : qs[k].q = list[k]
        /\ \A k \in 1..(n - 1) : ~qs[k].ok
        /\ (pc[t] = "query") <=> (n < Len(list) /\ \A k \in 1..n : ~qs[k].ok)

QueriesFollow(t, Variants(_)) ==
    Resolving(t) =>
        IF parse_coordinates(Raw(t)).ok
        THEN /\ loc[t].queries = <<>>
             /\ loc[t].input_type = "coordinates"
             /\ ~loc[t].has_display
             /\ pc[t] = "done" => (resp[t].input_type = "coordinates" /\ ~resp[t].has_display)
        ELSE QueriesArePrefixOf(t, Variants(Raw(t)))

\* C1 as stated: no query when the input parses as coordinates; otherwise the
\* queries are the shortest prefix of [raw, raw + ", Ontario, Canada",
\* raw + ", ON, Canada", raw with commas removed] ending at the first success.
C1_QueriesAsStated == \A t \in Threads : QueriesFollow(t, VariantsAsStated)

\* C1 amended: the same with the fourth variant being raw with commas removed
\* and then trimmed of surrounding whitespace.
C1_QueriesTrimmed == \A t \in Threads : QueriesFollow(t, VariantsTrimmed)

\* C1 witness: variants 1 and 2 failed, variant 3 succeeded, and the request
\* was answered after exactly three queries
C1_Witness ==
    \E t \in Threads :
        /\ pc[t] = "done" /\ resp[t].status = 200
        /\ Len(loc[t].queries) = 3
        /\ ~loc[t].queries[1].ok /\ ~loc[t].queries[2].ok /\ loc[t].queries[3].ok

(* ---- C2: region data missing or malformed ---- *)

\* C2: with the region file missing or malformed, a request that reached
\* classification does not end in a successful response.
C2_RegionDataUnavailable ==
    \A t \in Threads :
        (/\ pc[t] = "done" /\ req[t].kind = "geocode"
         /\ "point_in_region" \in loc[t].calls
         /\ ~FileWellFormed(regionFile))
            => resp[t].status # 200

(* ---- C3: failures of single variants ---- *)

AllFailed(qs) == \A k \in 1..Len(qs) : ~qs[k].ok

\* C3: a failed variant is always followed by the next one (issued, or about to
\* be), and after four failed variants the request has ended with status 400
\* and the guidance message.
C3_FailuresFallThrough ==
    \A t \in Threads :
        LET qs == loc[t].queries
        IN  /\ \A k \in 1..Len(qs) :
                  (~qs[k].ok /\ k < 4) =>
                      \/ Len(qs) > k
                      \/ pc[t] = "query" /\ loc[t].i = k + 1
            /\ (Len(qs) = 4 /\ AllFailed(qs)) =>
                  /\ pc[t] = "done"
                  /\ resp[t].status = 400
                  /\ resp[t].error = GuidanceError

\* C3 witness: four variants failed, by a network error, an unparsable body,
\* an empty result and a result without latitude, and the guidance was returned
C3_Witness ==
    \E t \in Threads :
        /\ pc[t] = "done" /\ resp[t].status = 400 /\ resp[t].error = GuidanceError
        /\ Len(loc[t].queries) = 4
        /\ { loc[t].queries[k].kind : k \in 1..4 } = FailureKinds \cup {"hit"}

(* ---- C5: validation ---- *)

Blank(s) == \A k \in 1..Len(s) : s[k] \in {" ", "\t"}

MustReject(r) ==
    \/ ~r.has_location
    \/ Blank(r.location)
    \/ r.applicant_type \notin {"indigenous", "municipality", "business"}
    \/ /\ r.applicant_type = "municipality"
       /\ r.municipality_population \notin {"below-170k", "above-170k"}

\* C5: a request is answered 400 with an input error exactly when the location
\* is missing or blank, the category is missing or unrecognised, or the
\* category is municipality and the bracket is missing or unrecognised; such a
\* request has caused no parsing, no query, no load, no classification and no
\* funding evaluation.
C5_RejectedExactly ==
    \A t \in Threads :
        (pc[t] = "done" /\ req[t].kind = "geocode") =>
            /\ (resp[t].status = 400 /\ resp[t].error \in InvalidInputErrors)
                   <=> MustReject(req[t])
            /\ MustReject(req[t]) =>
                   (loc[t].calls = {} /\ loc[t].queries = <<>> /\ data[t] = NoData)

\* C5 witness: a business request with an unrecognised bracket was answered 200
C5_Witness ==
    \E t \in Threads :
        /\ pc[t] = "done" /\ resp[t].status = 200
        /\ req[t].applicant_type = "business"
        /\ req[t].municipality_population = "other"

(* ---- C7: the region data is loaded once ---- *)

\* C7: once the cache holds the region data, the file is not read again and
\* the cache is not assigned again.
C7_LoadedOnce ==
    [][ontario_regions.loaded => (reads' = reads /\ ontario_regions' = ontario_regions)]_vars

(* ---- C8: classification ---- *)

\* the features of fs whose boundary contains (x = lon, y = lat)
Containing(fs, lat, lon) ==
    { k \in 1..Len(fs) :
        /\ fs[k].geometry.xmin * lon.den < lon.num
        /\ lon.num < fs[k].geometry.xmax * lon.den
        /\ fs[k].geometry.ymin * lat.den < lat.num
        /\ lat.num < fs[k].geometry.ymax * lat.den }

\* C8: with well-formed region data loaded, the region returned is the first
\* feature in stored order containing (x = longitude, y = latitude), and none
\* exactly when no feature contains it.
C8_FirstContaining ==
    \A t \in Threads :
        (/\ pc[t] = "done" /\ req[t].kind = "geocode" /\ resp[t].status = 200
         /\ FileWellFormed(regionFile))
            => LET fs == regionFile.json.features
                   inside == Containing(fs, resp[t].latitude, resp[t].longitude)
               IN  IF inside = {}
                   THEN ~resp[t].region.found
                   ELSE /\ resp[t].region.found
                        /\ resp[t].region.region =
                               fs[CHOOSE k \in inside : \A j \in inside : k <= j].region

\* C8 witness: a point inside both regions was classified into the first one
C8_Witness ==
    \E t \in Threads :
        /\ pc[t] = "done" /\ resp[t].status = 200 /\ FileWellFormed(regionFile)
        /\ Cardinality(Containing(regionFile.json.features,
                                  resp[t].latitude, resp[t].longitude)) = 2
        /\ resp[t].region.found
        /\ resp[t].region.region = regionFile.json.features[1].region

====
